---- MODULE Spec2Model ----
(***************************************************************************)
(* Model of src/process_game_state.py: class ProcessGameState, a table     *)
(* (pandas DataFrame) loaded at construction and seven operations that     *)
(* each take a table and return a new one.                                 *)
(*                                                                         *)
(* A table is [columns, rows]: the ordered column names and the ordered    *)
(* rows; a row is [label, cells]: its index label (the loaded table has    *)
(* labels 0..n-1, and every operation keeps the labels of the rows it      *)
(* keeps) and its cells, a function from column name to value.             *)
(***************************************************************************)
EXTENDS Integers, Sequences, FiniteSets, TLC

VARIABLES
    df,        \* self.df: the table loaded by __init__
    cur,       \* the table object the host passes to a call: self.df itself
               \* or the table it kept from the call before
    held,      \* "df" when cur is the object self.df, "returned" otherwise
    op,        \* "__init__", the method called last, or "keep"
    params,    \* the arguments of the last call other than the table
    snapshot,  \* the value cur had when the last call started
    result,    \* <<t>> when the last call returned table t, <<>> otherwise
    raised     \* "none", or the exception the last call raised

vars == <<df, cur, held, op, params, snapshot, result, raised>>

(***************************************************************************)
(* Bounds                                                                  *)
(***************************************************************************)
MaxRows == 2
MaxPolyRows == 2
MaxRoundRows == 5

(***************************************************************************)
(* Sequences                                                               *)
(***************************************************************************)
ToSet(s) == {s[k] : k \in 1..Len(s)}

SeqsUpTo(S, n) == UNION {[1..k -> S] : k \in 0..n}

(***************************************************************************)
(* Tables                                                                  *)
(***************************************************************************)
AllColumns == <<"round_num", "team", "side", "area_name", "x", "y", "z", "inventory">>

NoInventory == [isNone |-> TRUE, items |-> <<>>]
Inventory(items) == [isNone |-> FALSE, items |-> items]
Item(wc) == [weapon_class |-> wc, ammo |-> "full"]
ItemWithoutClass == [ammo |-> "full"]

Cells(round_num, team, side, area_name, x, y, z, inventory) ==
    [c \in ToSet(AllColumns) |->
        CASE c = "round_num" -> round_num
          [] c = "team" -> team
          [] c = "side" -> side
          [] c = "area_name" -> area_name
          [] c = "x" -> x
          [] c = "y" -> y
          [] c = "z" -> z
          [] c = "inventory" -> inventory]

\* pd.read_parquet: the rows of the file in file order under a RangeIndex
read_parquet(cellsSeq) ==
    [columns |-> AllColumns,
     rows |-> [i \in 1..Len(cellsSeq) |-> [label |-> i - 1, cells |-> cellsSeq[i]]]]

HasColumn(t, c) == \E k \in 1..Len(t.columns) : t.columns[k] = c

Column(t, c) == [i \in 1..Len(t.rows) |-> t.rows[i].cells[c]]

\* what a call hands back: the returned table (none when it raised), the
\* argument object as the call leaves it, and the exception
Return(t, arg) == [ret |-> <<t>>, arg |-> arg, raised |-> "none"]
Raise(e, arg) == [ret |-> <<>>, arg |-> arg, raised |-> e]

\* variant of DfCopy: `processed_df = df`, the same object under a second name
DfAlias(t) == [obj |-> "arg", val |-> t]

\* df.copy(): a new object holding the same columns and rows
DfCopy(t) == [obj |-> "fresh", val |-> t]

\* the argument object after a call that changed `local` in place to `after`
ArgAfter(t, local, after) == IF local.obj = "arg" THEN after ELSE t

\* variant of BoolIndex: the labels of the masked rows taken for positions
\* (df.iloc[...]); a position past the end selects nothing
BoolIndexByLabel(t, mask) ==
    LET kept == SelectSeq([i \in 1..Len(t.rows) |-> i], LAMBDA i : mask[i])
        at == SelectSeq([k \in 1..Len(kept) |-> t.rows[kept[k]].label + 1],
                        LAMBDA pos : pos \in 1..Len(t.rows))
    IN [columns |-> t.columns, rows |-> [k \in 1..Len(at) |-> t.rows[at[k]]]]

\* df[mask]: a new table of the rows whose mask entry is true, in table order
BoolIndex(t, mask) ==
    LET kept == SelectSeq([i \in 1..Len(t.rows) |-> i], LAMBDA i : mask[i])
    IN [columns |-> t.columns, rows |-> [k \in 1..Len(kept) |-> t.rows[kept[k]]]]

\* variant of DropColumns: drop without inplace=True leaves the table as it was
DropColumnsNotInPlace(t, irrelevant) == t

\* DataFrame.drop(columns=..., inplace=True)
DropColumns(t, irrelevant) ==
    [columns |-> SelectSeq(t.columns, LAMBDA c : c \notin irrelevant),
     rows |-> [i \in 1..Len(t.rows) |->
                 [label |-> t.rows[i].label,
                  cells |-> [c \in (DOMAIN t.rows[i].cells) \ irrelevant |->
                                t.rows[i].cells[c]]]]]

(***************************************************************************)
(* remove_unneeded_cols                                                    *)
(***************************************************************************)
remove_unneeded_cols(t, columns) ==
    LET processed_df == DfCopy(t)
        irrelevant_columns == ToSet(processed_df.val.columns) \ ToSet(columns)
        dropped == DropColumns(processed_df.val, irrelevant_columns)
    IN Return(dropped, ArgAfter(t, processed_df, dropped))

(***************************************************************************)
(* filter_by_team, filter_by_side, filter_by_area_name                     *)
(***************************************************************************)
filter_by_team(t, team) ==
    IF ~HasColumn(t, "team") THEN Raise("KeyError", t)
    ELSE LET col == Column(t, "team")
         IN Return(BoolIndex(t, [i \in 1..Len(t.rows) |-> col[i] = team]), t)

filter_by_side(t, side) ==
    IF ~HasColumn(t, "side") THEN Raise("KeyError", t)
    ELSE LET col == Column(t, "side")
         IN Return(BoolIndex(t, [i \in 1..Len(t.rows) |-> col[i] = side]), t)

\* variant of isin: only the first listed value is compared
isinFirst(v, values) == Len(values) > 0 /\ values[1] = v

\* Series.isin(values)
isin(v, values) == \E k \in 1..Len(values) : values[k] = v

filter_by_area_name(t, area_names) ==
    IF ~HasColumn(t, "area_name") THEN Raise("KeyError", t)
    ELSE LET col == Column(t, "area_name")
         IN Return(BoolIndex(t, [i \in 1..Len(t.rows) |-> isin(col[i], area_names)]), t)

(***************************************************************************)
(* filter_by_polygon                                                       *)
(***************************************************************************)
\* Polygon(polygon_coordinates): no coordinates give the empty polygon, one
\* or two are refused (a ring needs three), otherwise the ring is closed by
\* repeating the first vertex
PolygonRaises(coords) == Len(coords) \in {1, 2}

Polygon(coords) ==
    IF Len(coords) = 0 THEN <<>>
    ELSE IF coords[Len(coords)] = coords[1] THEN coords
    ELSE Append(coords, coords[1])

Sign(n) == IF n > 0 THEN 1 ELSE IF n < 0 THEN -1 ELSE 0

\* 1 when q is to the left of the directed line p1 -> p2, -1 to the right
OrientationIndex(p1, p2, q) ==
    Sign((p2[1] - p1[1]) * (q[2] - p1[2]) - (p2[2] - p1[2]) * (q[1] - p1[1]))

Min(a, b) == IF a < b THEN a ELSE b
Max(a, b) == IF a > b THEN a ELSE b

\* one ring segment against the ray from q to the right: "skip", "on" (q is
\* on the segment), "cross" or "miss"
CountSegment(p1, p2, q) ==
    IF p1[1] < q[1] /\ p2[1] < q[1] THEN "skip"
    ELSE IF q = p2 THEN "on"
    ELSE IF p1[2] = q[2] /\ p2[2] = q[2]
         THEN IF Min(p1[1], p2[1]) <= q[1] /\ q[1] <= Max(p1[1], p2[1])
              THEN "on" ELSE "miss"
    ELSE IF (p1[2] > q[2] /\ p2[2] <= q[2]) \/ (p2[2] > q[2] /\ p1[2] <= q[2])
         THEN LET sign == OrientationIndex(p1, p2, q)
                  up == IF p2[2] < p1[2] THEN -sign ELSE sign
              IN IF sign = 0 THEN "on" ELSE IF up > 0 THEN "cross" ELSE "miss"
    ELSE "miss"

\* where q lies with respect to the ring: "BOUNDARY", "INTERIOR" or "EXTERIOR"
Locate(ring, q) ==
    LET segs == 1..(Len(ring) - 1)
        on == \E k \in segs : CountSegment(ring[k], ring[k + 1], q) = "on"
        crossings == Cardinality({k \in segs : CountSegment(ring[k], ring[k + 1], q) = "cross"})
    IN IF on THEN "BOUNDARY"
       ELSE IF crossings % 2 = 1 THEN "INTERIOR" ELSE "EXTERIOR"

\* polygon.contains(Point(x, y)): the point is in the interior
contains(ring, q) == Locate(ring, q) = "INTERIOR"

\* variant of between: the right end left out (inclusive="left")
betweenLeft(v, left, right) == left <= v /\ v < right

\* Series.between(left, right): both ends inclusive
between(v, left, right) == left <= v /\ v <= right

filter_by_polygon(t, polygon_coordinates, z_bound) ==
    IF PolygonRaises(polygon_coordinates) THEN Raise("ValueError", t)
    ELSE IF ~HasColumn(t, "z") THEN Raise("KeyError", t)
    ELSE IF Len(t.rows) > 0 /\ ~(HasColumn(t, "x") /\ HasColumn(t, "y"))
         THEN Raise("KeyError", t)
    ELSE LET polygon == Polygon(polygon_coordinates)
             mask == [i \in 1..Len(t.rows) |->
                        /\ between(t.rows[i].cells["z"], z_bound[1], z_bound[2])
                        /\ contains(polygon, <<t.rows[i].cells["x"], t.rows[i].cells["y"]>>)]
         IN Return(BoolIndex(t, mask), t)

(***************************************************************************)
(* extract_weapon_classes                                                  *)
(***************************************************************************)
\* item['weapon_class'] is a KeyError on an item without that key
ItemRaises(item) == "weapon_class" \notin DOMAIN item

\* the list appended for one row
RowWeaponClasses(inventory) ==
    IF inventory.isNone THEN <<>>
    ELSE [k \in 1..Len(inventory.items) |-> inventory.items[k]["weapon_class"]]

RowRaises(inventory) ==
    /\ ~inventory.isNone
    /\ \E k \in 1..Len(inventory.items) : ItemRaises(inventory.items[k])

NaN == [isNaN |-> TRUE, classes |-> <<>>]
ListCell(classes) == [isNaN |-> FALSE, classes |-> classes]

\* new_df['weapon_classes'] = pd.Series(weapon_classes): the Series is
\* indexed 0..n-1 and the assignment aligns it with the table's row labels;
\* a label the Series lacks gets NaN
AlignedCell(label, weapon_classes) ==
    IF label \in 0..(Len(weapon_classes) - 1)
    THEN ListCell(weapon_classes[label + 1]) ELSE NaN

SetWeaponClasses(t, weapon_classes) ==
    [columns |-> IF HasColumn(t, "weapon_classes") THEN t.columns
                 ELSE Append(t.columns, "weapon_classes"),
     rows |-> [i \in 1..Len(t.rows) |->
                 [label |-> t.rows[i].label,
                  cells |-> [c \in (DOMAIN t.rows[i].cells) \cup {"weapon_classes"} |->
                                IF c = "weapon_classes"
                                THEN AlignedCell(t.rows[i].label, weapon_classes)
                                ELSE t.rows[i].cells[c]]]]]

\* variant of extract_weapon_classes: items without a weapon_class are
\* passed over (item.get) instead of raising
extract_weapon_classes_skipping(t) ==
    LET new_df == DfCopy(t)
        classes(inventory) ==
            IF inventory.isNone THEN <<>>
            ELSE LET has == SelectSeq(inventory.items, LAMBDA item : ~ItemRaises(item))
                 IN [k \in 1..Len(has) |-> has[k]["weapon_class"]]
    IN IF Len(t.rows) > 0 /\ ~HasColumn(t, "inventory") THEN Raise("KeyError", t)
       ELSE LET weapon_classes ==
                    [i \in 1..Len(t.rows) |-> classes(t.rows[i].cells["inventory"])]
                assigned == SetWeaponClasses(new_df.val, weapon_classes)
            IN Return(assigned, ArgAfter(t, new_df, assigned))

extract_weapon_classes(t) ==
    LET new_df == DfCopy(t)
    IN IF Len(t.rows) > 0 /\ ~HasColumn(t, "inventory") THEN Raise("KeyError", t)
       ELSE IF \E i \in 1..Len(t.rows) : RowRaises(t.rows[i].cells["inventory"])
            THEN Raise("KeyError", t)
       ELSE LET weapon_classes ==
                    [i \in 1..Len(t.rows) |-> RowWeaponClasses(t.rows[i].cells["inventory"])]
                assigned == SetWeaponClasses(new_df.val, weapon_classes)
            IN Return(assigned, ArgAfter(t, new_df, assigned))

(***************************************************************************)
(* get_first_row_of_each_round                                             *)
(***************************************************************************)
\* current_round is <<>> for None and <<n>> for round n
NoRound == <<>>

\* variant of FirstRowStep: a row is kept only when no kept row has its
\* round_num (the first row of each round anywhere in the table)
FirstRowStepUnseen(st, row) ==
    IF \A k \in 1..Len(st.first_round_rows) :
           st.first_round_rows[k].cells["round_num"] # row.cells["round_num"]
    THEN [first_round_rows |-> Append(st.first_round_rows, row),
          current_round |-> <<row.cells["round_num"]>>]
    ELSE st

\* one pass of the loop body over row i; st = [first_round_rows, current_round]
FirstRowStep(st, row) ==
    LET round_number == <<row.cells["round_num"]>>
    IN IF round_number # st.current_round
       THEN [first_round_rows |-> Append(st.first_round_rows, row),
             current_round |-> round_number]
       ELSE st

RECURSIVE FirstRowLoop(_, _, _)
FirstRowLoop(rows, i, st) ==
    IF i > Len(rows) THEN st
    ELSE FirstRowLoop(rows, i + 1, FirstRowStep(st, rows[i]))

\* pd.DataFrame(list of rows): the rows under their own labels; no rows
\* give a table without columns
DataFrameOfRows(rows, columns) ==
    IF Len(rows) = 0 THEN [columns |-> <<>>, rows |-> <<>>]
    ELSE [columns |-> columns, rows |-> rows]

get_first_row_of_each_round(t) ==
    IF Len(t.rows) > 0 /\ ~HasColumn(t, "round_num") THEN Raise("KeyError", t)
    ELSE LET st == FirstRowLoop(t.rows, 1, [first_round_rows |-> <<>>, current_round |-> NoRound])
         IN Return(DataFrameOfRows(st.first_round_rows, t.columns), t)

(***************************************************************************)
(* Inputs                                                                  *)
(***************************************************************************)
Square == << <<0, 0>>, <<0, 2>>, <<2, 2>>, <<2, 0>> >>
Triangle == << <<0, 0>>, <<4, 0>>, <<0, 4>> >>
LShape == << <<0, 0>>, <<0, 4>>, <<2, 4>>, <<2, 2>>, <<4, 2>>, <<4, 0>> >>
NoVertices == << >>
OneVertex == << <<0, 0>> >>
TwoVertices == << <<0, 0>>, <<2, 2>> >>

Polygons == {Square, Triangle, LShape, NoVertices, OneVertex, TwoVertices}
ZBounds == {<<0, 2>>, <<1, 1>>, <<2, 0>>}
Teams == {"A", "B"}
Sides == {"T", "CT"}
AreaNameLists == {<<>>, <<"BombsiteB", "Mid">>, <<"Mid", "BombsiteB", "Mid">>, <<"TSpawn">>}
KeepLists == {<<"team", "side", "area_name", "bogus">>,
              <<"inventory", "round_num", "z", "y", "x">>,
              <<>>}

Rifle == Item("Rifle")
Pistol == Item("Pistols")

\* rows that differ in team, side and area_name
CatPool ==
    {Cells(1, "A", "T", "BombsiteB", 1, 1, 1, NoInventory),
     Cells(1, "A", "CT", "Mid", 1, 1, 1, NoInventory),
     Cells(1, "B", "CT", "BombsiteB", 1, 1, 1, NoInventory),
     Cells(1, "a", "T", "TSpawn", 1, 1, 1, NoInventory),
     Cells(1, "B", "ct", "CTSpawn", 1, 1, 1, NoInventory)}

\* rows that differ in position
PolyPool ==
    {Cells(1, "A", "T", "Mid", q[1], q[2], z, NoInventory) :
        q \in {<<1, 1>>, <<0, 1>>, <<2, 2>>, <<3, 3>>}, z \in 0..2}

\* rows that differ in inventory (and in team, so that a filter splits them)
InvPool ==
    {Cells(1, "A", "T", "Mid", 1, 1, 1, NoInventory),
     Cells(1, "B", "T", "Mid", 1, 1, 1, Inventory(<<Rifle, Pistol>>)),
     Cells(1, "A", "T", "Mid", 1, 1, 1, Inventory(<<Pistol>>)),
     Cells(1, "B", "T", "Mid", 1, 1, 1, Inventory(<<>>)),
     Cells(1, "A", "T", "Mid", 1, 1, 1, Inventory(<<Pistol, ItemWithoutClass>>))}

\* rows that differ in round_num
RoundPool ==
    {Cells(r, "A", "T", "Mid", 1, 1, 1, NoInventory) : r \in 1..2}

ParquetFiles ==
    SeqsUpTo(CatPool, MaxRows) \cup SeqsUpTo(PolyPool, MaxPolyRows)
        \cup SeqsUpTo(InvPool, MaxRows) \cup SeqsUpTo(RoundPool, MaxRoundRows)

NoParams == [name |-> "", names |-> <<>>, polygon |-> <<>>, z_bound |-> <<0, 0>>]

(***************************************************************************)
(* The host program: construction, then calls that pass self.df or the     *)
(* table the call before returned                                          *)
(***************************************************************************)
\* __init__
Init ==
    /\ df \in {read_parquet(f) : f \in ParquetFiles}
    /\ cur = df
    /\ held = "df"
    /\ op = "__init__"
    /\ params = NoParams
    /\ snapshot = df
    /\ result = <<>>
    /\ raised = "none"

get_df == df

Methods == {"remove_unneeded_cols", "filter_by_team", "filter_by_side",
            "filter_by_area_name", "filter_by_polygon", "extract_weapon_classes",
            "get_first_row_of_each_round"}

Ready == op \notin Methods

\* a call of method `name` on cur with arguments p, which hands back `out`
Call(name, p, out) ==
    /\ Ready
    /\ op' = name
    /\ params' = p
    /\ snapshot' = cur
    /\ cur' = out.arg
    /\ df' = IF held = "df" THEN out.arg ELSE df
    /\ result' = out.ret
    /\ raised' = out.raised
    /\ UNCHANGED held

RemoveUnneededCols ==
    \E columns \in KeepLists :
        Call("remove_unneeded_cols", [NoParams EXCEPT !.names = columns],
             remove_unneeded_cols(cur, columns))

FilterByTeam ==
    \E team \in Teams :
        Call("filter_by_team", [NoParams EXCEPT !.name = team], filter_by_team(cur, team))

FilterBySide ==
    \E side \in Sides :
        Call("filter_by_side", [NoParams EXCEPT !.name = side], filter_by_side(cur, side))

FilterByAreaName ==
    \E area_names \in AreaNameLists :
        Call("filter_by_area_name", [NoParams EXCEPT !.names = area_names],
             filter_by_area_name(cur, area_names))

FilterByPolygon ==
    \E polygon_coordinates \in Polygons, z_bound \in ZBounds :
        Call("filter_by_polygon",
             [NoParams EXCEPT !.polygon = polygon_coordinates, !.z_bound = z_bound],
             filter_by_polygon(cur, polygon_coordinates, z_bound))

ExtractWeaponClasses ==
    Call("extract_weapon_classes", NoParams, extract_weapon_classes(cur))

GetFirstRowOfEachRound ==
    Call("get_first_row_of_each_round", NoParams, get_first_row_of_each_round(cur))

\* the host keeps the returned table and will pass it to its next call
Keep ==
    /\ op \in Methods
    /\ result # <<>>
    /\ cur' = result[1]
    /\ held' = "returned"
    /\ op' = "keep"
    /\ params' = NoParams
    /\ snapshot' = result[1]
    /\ result' = <<>>
    /\ raised' = "none"
    /\ UNCHANGED df

Next ==
    \/ RemoveUnneededCols
    \/ FilterByTeam
    \/ FilterBySide
    \/ FilterByAreaName
    \/ FilterByPolygon
    \/ ExtractWeaponClasses
    \/ GetFirstRowOfEachRound
    \/ Keep

Spec == Init /\ [][Next]_vars

(***************************************************************************)
(* Properties                                                              *)
(***************************************************************************)
Ret == result[1]

Returned(name) == op = name /\ raised = "none"

RowsOf(t) == ToSet(t.rows)

\* the regions the polygons enclose, written out as inequalities
InInterior(poly, x, y) ==
    CASE poly = Square -> 0 < x /\ x < 2 /\ 0 < y /\ y < 2
      [] poly = Triangle -> 0 < x /\ 0 < y /\ x + y < 4
      [] poly = LShape -> \/ 0 < x /\ x < 2 /\ 0 < y /\ y < 4
                          \/ 0 < x /\ x < 4 /\ 0 < y /\ y < 2
      [] OTHER -> FALSE

InClosure(poly, x, y) ==
    CASE poly = Square -> 0 <= x /\ x <= 2 /\ 0 <= y /\ y <= 2
      [] poly = Triangle -> 0 <= x /\ 0 <= y /\ x + y <= 4
      [] poly = LShape -> \/ 0 <= x /\ x <= 2 /\ 0 <= y /\ y <= 4
                          \/ 0 <= x /\ x <= 4 /\ 0 <= y /\ y <= 2
      [] OTHER -> FALSE

OnBoundary(poly, x, y) == InClosure(poly, x, y) /\ ~InInterior(poly, x, y)

ZWithin(z, z_bound) == z_bound[1] <= z /\ z <= z_bound[2]

\* C1: filter_by_polygon keeps every row whose (x, y) is on an edge or a
\* vertex of the polygon and whose z is within [zMin, zMax].
C1_BoundaryRowsKept ==
    Returned("filter_by_polygon") =>
        \A r \in RowsOf(snapshot) :
            (/\ OnBoundary(params.polygon, r.cells["x"], r.cells["y"])
             /\ ZWithin(r.cells["z"], params.z_bound))
                => r \in RowsOf(Ret)

\* the weapon classes the inventory of a row lists, in inventory order
ClassesOf(inventory) ==
    IF inventory.isNone THEN <<>>
    ELSE [k \in 1..Len(inventory.items) |-> inventory.items[k].weapon_class]

\* C2: extract_weapon_classes returns the rows of its input, each with a
\* weapon_classes value that is the empty sequence for a null inventory and
\* otherwise the weapon_class of that row's inventory items in order; this
\* for every input table, also one a filter returned.
C2_WeaponClassesOfEachRow ==
    Returned("extract_weapon_classes") =>
        /\ Len(Ret.rows) = Len(snapshot.rows)
        /\ \A i \in 1..Len(snapshot.rows) :
            /\ Ret.rows[i].label = snapshot.rows[i].label
            /\ \A c \in ToSet(snapshot.columns) \ {"weapon_classes"} :
                   Ret.rows[i].cells[c] = snapshot.rows[i].cells[c]
            /\ Ret.rows[i].cells["weapon_classes"]
                   = ListCell(ClassesOf(snapshot.rows[i].cells["inventory"]))

\* C3: filter_by_polygon with fewer than 3 vertices, or with zMin > zMax,
\* raises and returns no table.
C3_InvalidArgumentsRaise ==
    (/\ op = "filter_by_polygon"
     /\ \/ Len(params.polygon) < 3
        \/ params.z_bound[1] > params.z_bound[2])
        => raised # "none" /\ result = <<>>

\* the positions that start a run of equal round_num
RunStarts(rows) ==
    {i \in 1..Len(rows) :
        i = 1 \/ rows[i].cells["round_num"] # rows[i - 1].cells["round_num"]}

RECURSIVE Ascending(_)
Ascending(S) ==
    IF S = {} THEN <<>>
    ELSE LET m == CHOOSE a \in S : \A b \in S : a <= b
         IN <<m>> \o Ascending(S \ {m})

\* C4: get_first_row_of_each_round returns, in source order, exactly the rows
\* that start a run of round_num: row 0 and every row whose round_num differs
\* from that of the row before it.
C4_FirstRowOfEachRun ==
    Returned("get_first_row_of_each_round") =>
        LET starts == Ascending(RunStarts(snapshot.rows))
        IN Ret.rows = [k \in 1..Len(starts) |-> snapshot.rows[starts[k]]]

C4_Witness ==
    /\ Returned("get_first_row_of_each_round")
    /\ Column(snapshot, "round_num") = <<1, 1, 2, 2, 1>>
    /\ [k \in 1..Len(Ret.rows) |-> Ret.rows[k].label] = <<0, 2, 4>>

\* C5: filter_by_polygon keeps no row whose z is outside [zMin, zMax] or whose
\* (x, y) is strictly outside the polygon, and keeps every row whose (x, y) is
\* strictly inside and whose z is within the bound, its ends included.
C5_InsideKeptOutsideDropped ==
    Returned("filter_by_polygon") =>
        /\ \A r \in RowsOf(Ret) :
            /\ r \in RowsOf(snapshot)
            /\ ZWithin(r.cells["z"], params.z_bound)
            /\ InClosure(params.polygon, r.cells["x"], r.cells["y"])
        /\ \A r \in RowsOf(snapshot) :
            (/\ InInterior(params.polygon, r.cells["x"], r.cells["y"])
             /\ ZWithin(r.cells["z"], params.z_bound))
                => r \in RowsOf(Ret)

C5_Witness ==
    /\ Returned("filter_by_polygon")
    /\ params.polygon = Square
    /\ params.z_bound = <<0, 2>>
    /\ Len(snapshot.rows) = 2
    /\ snapshot.rows[1].cells["x"] = 3 /\ snapshot.rows[1].cells["y"] = 3
    /\ snapshot.rows[2].cells["x"] = 1 /\ snapshot.rows[2].cells["y"] = 1
    /\ snapshot.rows[2].cells["z"] = 2
    /\ Ret.rows = <<snapshot.rows[2]>>

LacksClass(row) ==
    /\ ~row.cells["inventory"].isNone
    /\ \E k \in 1..Len(row.cells["inventory"].items) :
           "weapon_class" \notin DOMAIN row.cells["inventory"].items[k]

\* C6: extract_weapon_classes raises, and returns no table, whenever an
\* inventory item of any row has no weapon_class field.
C6_MissingClassRaises ==
    (/\ op = "extract_weapon_classes"
     /\ HasColumn(snapshot, "inventory")
     /\ \E r \in RowsOf(snapshot) : LacksClass(r))
        => raised = "KeyError" /\ result = <<>>

C6_Witness ==
    /\ op = "extract_weapon_classes"
    /\ Len(snapshot.rows) = 2
    /\ ~LacksClass(snapshot.rows[1])
    /\ ~snapshot.rows[1].cells["inventory"].isNone
    /\ LacksClass(snapshot.rows[2])
    /\ raised = "KeyError"
    /\ result = <<>>

\* C7: remove_unneeded_cols returns a table whose columns are exactly the
\* input's columns that are in the list to keep; a listed name the table
\* lacks raises nothing and adds nothing; rows, count and order are the input's.
C7_ColumnsIntersected ==
    op = "remove_unneeded_cols" =>
        LET kept == ToSet(snapshot.columns) \cap ToSet(params.names)
        IN /\ raised = "none"
           /\ ToSet(Ret.columns) = kept
           /\ Len(Ret.rows) = Len(snapshot.rows)
           /\ \A i \in 1..Len(snapshot.rows) :
               /\ Ret.rows[i].label = snapshot.rows[i].label
               /\ DOMAIN Ret.rows[i].cells = kept
               /\ \A c \in kept : Ret.rows[i].cells[c] = snapshot.rows[i].cells[c]

C7_Witness ==
    /\ Returned("remove_unneeded_cols")
    /\ "bogus" \in ToSet(params.names)
    /\ snapshot.columns = AllColumns
    /\ Ret.columns = <<"team", "side", "area_name">>
    /\ Len(Ret.rows) = 2

\* C8: filter_by_team, filter_by_side and filter_by_area_name return exactly
\* the rows of the input that match (team or side equal to the argument,
\* area_name a member of the list whatever its order or duplicates), in input
\* order; no match gives an empty table and no error.
C8_CategoricalFilters ==
    /\ (op = "filter_by_team" /\ HasColumn(snapshot, "team")) =>
           /\ raised = "none"
           /\ Ret.columns = snapshot.columns
           /\ Ret.rows = SelectSeq(snapshot.rows, LAMBDA r : r.cells["team"] = params.name)
    /\ (op = "filter_by_side" /\ HasColumn(snapshot, "side")) =>
           /\ raised = "none"
           /\ Ret.columns = snapshot.columns
           /\ Ret.rows = SelectSeq(snapshot.rows, LAMBDA r : r.cells["side"] = params.name)
    /\ (op = "filter_by_area_name" /\ HasColumn(snapshot, "area_name")) =>
           /\ raised = "none"
           /\ Ret.columns = snapshot.columns
           /\ Ret.rows = SelectSeq(snapshot.rows,
                                   LAMBDA r : r.cells["area_name"] \in ToSet(params.names))

C8_Witness ==
    /\ Returned("filter_by_area_name")
    /\ params.names = <<"Mid", "BombsiteB", "Mid">>
    /\ Len(snapshot.rows) = 2
    /\ snapshot.rows[1].cells["area_name"] = "TSpawn"
    /\ snapshot.rows[2].cells["area_name"] = "BombsiteB"
    /\ Ret.rows = <<snapshot.rows[2]>>

\* C9: no call changes the table it is given: across every call the argument
\* table and self.df keep their rows, row order, columns and values.
C9_InputUnchanged == [][op' \in Methods => (cur' = cur /\ df' = df)]_vars

C9_Witness ==
    /\ Returned("extract_weapon_classes")
    /\ held = "returned"
    /\ Len(cur.rows) > 0
    /\ HasColumn(Ret, "weapon_classes")
    /\ ~HasColumn(cur, "weapon_classes")
    /\ cur = snapshot

\* C10: each filter gives, applied with the same argument to its own output,
\* that output again.
C10_FiltersIdempotent ==
    /\ Returned("filter_by_team") => filter_by_team(Ret, params.name).ret = <<Ret>>
    /\ Returned("filter_by_side") => filter_by_side(Ret, params.name).ret = <<Ret>>
    /\ Returned("filter_by_area_name") =>
           filter_by_area_name(Ret, params.names).ret = <<Ret>>
    /\ Returned("filter_by_polygon") =>
           filter_by_polygon(Ret, params.polygon, params.z_bound).ret = <<Ret>>

C10_Witness ==
    /\ Returned("filter_by_polygon")
    /\ params.polygon = LShape
    /\ Len(snapshot.rows) = 2
    /\ Len(Ret.rows) = 1
    /\ Ret.rows[1].label = 1
    /\ filter_by_polygon(Ret, params.polygon, params.z_bound).ret = <<Ret>>

====
